---- MODULE Spec2Model ----
(***************************************************************************)
(* compress_images.py: main walks a gallery directory, and compress_image  *)
(* rewrites each found image in place.  Sizes are counted in abstract byte *)
(* units; target_size stands for max_size_mb * 1024 * 1024.  main always   *)
(* calls compress_image with output_path=None, so the output path is the   *)
(* input path (lines 47-48) and the temporary file is '<input>.temp'.      *)
(***************************************************************************)
EXTENDS Integers, Sequences, FiniteSets, TLC

\* ------------------------------------------------------------------ bounds
MaxFiles == 2
MaxBytes == 3
MaxDim == 2

\* --------------------------------------------------------------- constants
LastQuality == 35
DefaultQuality == 85

\* The fixed part of the ladder literal of line 80.
LadderTail == <<75, 65, 55, 45, 35>>

\* Values of --quality the model draws from: the default, every fixed ladder
\* value, one above and one below the ladder.
Qualities == {100, 85, 75, 65, 55, 45, 35, 20}

ImageExtensions == {".jpg", ".jpeg", ".png", ".webp", ".bmp", ".tiff"}

AlphaModes == {"RGBA", "LA", "P"}

Modes == {"RGB", "RGBA", "LA", "P", "L"}

\* EXIF orientation values; 1 is the normal orientation (also: no tag).
Orientations == 1..8

Sizes == 1..MaxBytes

Dims == 1..MaxDim

\* ------------------------------------------------------------------- state
VARIABLES
  gallery_exists,       \* os.path.exists(args.gallery_dir)
  names,                \* directory entries: entry p -> file name suffix
  disk,                 \* entry p -> the file stored under that path
  disk0,                \* the files as they were when main started
  temp,                 \* entry p -> whether '<path>.temp' exists
  dry_run, quality, target_size,          \* args
  image_files,          \* result of find_images
  pc,                   \* position of the program
  i,                    \* index of the for loop of main (1-based)
  success_count, total_original_size, total_compressed_size,
  img,                  \* compress_image: the Image Artifact
  original_size, original_dimensions,
  k,                    \* compress_image: position in the ladder (1-based)
  best_quality,
  test_size,            \* compress_image: size of the last probe's temp file
  written_quality,      \* quality passed to the final save, 0 before it
  enc,                  \* size the JPEG encoder gave img at the requested
                        \* quality, 0 before its first probe: the one ladder
                        \* entry that can be encoded again
  ret,                  \* compress_image's return value
  probes,               \* qualities passed to img.save(temp_path), in order
  writes,               \* number of img.save(output_path) calls of this call
  calls,                \* entries compress_image was called on, in order
  outcome               \* entry p -> what main recorded for it

vars == <<gallery_exists, names, disk, disk0, temp, dry_run, quality,
          target_size, image_files, pc, i, success_count,
          total_original_size, total_compressed_size, img, original_size,
          original_dimensions, k, best_quality, test_size, written_quality,
          enc, ret, probes, writes, calls, outcome>>

mainVars == <<success_count, total_original_size, total_compressed_size>>

argVars == <<gallery_exists, names, disk0, dry_run, quality, target_size,
             image_files>>

localVars == <<img, original_size, original_dimensions, k, best_quality,
               test_size, written_quality, enc, ret, probes, writes>>

NoImg == [mode |-> "none", width |-> 0, height |-> 0]

NoOutcome == [called |-> FALSE, success |-> FALSE, compressed_size |-> 0]

\* ------------------------------------------------------------ pure helpers

Lower(s) ==
  CASE s = ".PNG" -> ".png"
    [] s = ".JPG" -> ".jpg"
    [] OTHER -> s

\* any(file.lower().endswith(ext) for ext in image_extensions)
IsImageName(s) == Lower(s) \in ImageExtensions

IsPng_CaseSensitive(s) == s = ".png"

\* input_path.lower().endswith('.png')
IsPng(s) == Lower(s) = ".png"

RECURSIVE SelectEntries(_, _)
SelectEntries(nm, p) ==
  IF p > Len(nm) THEN <<>>
  ELSE IF IsImageName(nm[p]) THEN <<p>> \o SelectEntries(nm, p + 1)
  ELSE SelectEntries(nm, p + 1)

find_images(nm) == SelectEntries(nm, 1)

\* Image.open(...): the artifact as stored, img.size = (width, height).
Decode(f) == [mode |-> f.mode, width |-> f.width, height |-> f.height]

\* ImageOps.exif_transpose: orientations 5..8 are the transposing ones
\* (TRANSPOSE, ROTATE_270, TRANSVERSE, ROTATE_90); 2..4 flip or rotate by 180.
exif_transpose(im, orientation) ==
  IF orientation \in 5..8
  THEN [im EXCEPT !.width = im.height, !.height = im.width]
  ELSE im

Normalize_OnlyRGBA(im) ==
  IF im.mode = "RGBA"
  THEN [mode |-> "RGB", width |-> im.width, height |-> im.height]
  ELSE im

\* Lines 35-44: paste on a white RGB background of img.size, or convert.
Normalize(im) ==
  IF im.mode \in AlphaModes
  THEN [mode |-> "RGB", width |-> im.width, height |-> im.height]
  ELSE IF im.mode # "RGB" THEN [im EXCEPT !.mode = "RGB"]
  ELSE im

Ladder_Deduplicated(q) ==
  <<q>> \o SelectSeq(LadderTail, LAMBDA x : x # q)

\* for test_quality in [current_quality, 75, 65, 55, 45, 35]
Ladder(q) == <<q>> \o LadderTail

Accepts_SizeOnly(size, test_quality, target) == size <= target

\* if test_size <= target_size or test_quality == 35
Accepts(size, test_quality, target) ==
  size <= target \/ test_quality = LastQuality

SmallEnough_Strict(size, target) == size < target

\* if original_size <= target_size: ... return True
SmallEnough(size, target) == size <= target

\* Whether a stored file carries transparency.
HasAlpha(f) ==
  f.mode \in {"RGBA", "LA"} \/ (f.mode = "P" /\ f.transparency)

\* The file img.save(path, format=fmt, ...) leaves behind.  Modification
\* times are "old" (before the run) or "now" (written by the run).
Encoded(im, fmt, size) ==
  [statable |-> TRUE, decodable |-> TRUE, format |-> fmt, size |-> size,
   mode |-> im.mode, transparency |-> FALSE,
   width |-> im.width, height |-> im.height, orientation |-> 1,
   content |-> "encoded", mtime |-> "now"]

\* A save that raised after opening the path: a truncated file.
Truncated(f) ==
  [f EXCEPT !.decodable = FALSE, !.content = "partial", !.mtime = "now"]

CountOf(q, s) == Cardinality({j \in 1..Len(s) : s[j] = q})

Cur == image_files[i]

\* ------------------------------------------------------------------- init

FileRecs(sizes, modes, dims, orients) ==
  { [statable |-> st, decodable |-> dc, format |-> "original", size |-> sz,
     mode |-> md, transparency |-> tr, width |-> w, height |-> h,
     orientation |-> o, content |-> "original", mtime |-> "old"] :
    st \in BOOLEAN, dc \in BOOLEAN, sz \in sizes, md \in modes,
    tr \in BOOLEAN, w \in dims, h \in dims, o \in orients }

\* A file that cannot be stat'ed (a dangling link) cannot be decoded either,
\* an undecodable file has no meaningful image attributes, and only a
\* palette image has a transparency flag to vary.
WellFormed(f) ==
  /\ (~f.statable => ~f.decodable /\ f.size = 1)
  /\ (~f.decodable => f.mode = "RGB" /\ f.width = 1 /\ f.height = 1
                      /\ f.orientation = 1)
  /\ (f.mode # "P" => ~f.transparency)

\* What the model stores for a file the program never opens.
Plain ==
  [statable |-> TRUE, decodable |-> FALSE, format |-> "original", size |-> 1,
   mode |-> "RGB", transparency |-> FALSE, width |-> 1, height |-> 1,
   orientation |-> 1, content |-> "original", mtime |-> "old"]

InitWith(counts, exts, files, quals, targets) ==
  /\ gallery_exists \in BOOLEAN
  /\ \E n \in counts :
       /\ names \in [1..n -> exts]
       /\ disk \in [1..n -> {f \in files : WellFormed(f)}]
       /\ gallery_exists \/ n = 0
       /\ \A p \in 1..n : ~IsImageName(names[p]) => disk[p] = Plain
       /\ temp = [p \in 1..n |-> FALSE]
       /\ outcome = [p \in 1..n |-> NoOutcome]
  /\ disk0 = disk
  /\ dry_run \in BOOLEAN
  /\ quality \in quals
  /\ target_size \in targets
  /\ image_files = <<>>
  /\ pc = "start"
  /\ i = 0
  /\ success_count = 0
  /\ total_original_size = 0
  /\ total_compressed_size = 0
  /\ img = NoImg
  /\ original_size = 0
  /\ original_dimensions = <<0, 0>>
  /\ k = 0
  /\ best_quality = 0
  /\ test_size = 0
  /\ written_quality = 0
  /\ enc = 0
  /\ ret = FALSE
  /\ probes = <<>>
  /\ writes = 0
  /\ calls = <<>>

Targets == 1..(MaxBytes - 1)

\* main over a gallery of several plain RGB files, with the default quality
\* and a target that has file sizes below it, at it and above it.
Init ==
  InitWith(0..MaxFiles, {".jpg", ".png", ".txt"},
           FileRecs(Sizes, {"RGB"}, {1}, {1}), {DefaultQuality},
           {MaxBytes - 1})

\* compress_image on one file, over every --quality.
InitLadder ==
  InitWith(0..1, {".jpg", ".png", ".PNG", ".bmp", ".txt"},
           FileRecs(Sizes, {"RGB"}, {1}, {1}), Qualities, Targets)

\* compress_image on one file, over every colour mode, size and orientation.
InitImage ==
  InitWith(0..1, {".jpg", ".png", ".txt"},
           FileRecs(Sizes, Modes, Dims, Orientations), {DefaultQuality},
           Targets)

\* ---------------------------------------------------------------- actions

\* The frame of compress_image is discarded when it returns.
ResetLocals ==
  /\ img' = NoImg
  /\ original_size' = 0
  /\ original_dimensions' = <<0, 0>>
  /\ k' = 0
  /\ best_quality' = 0
  /\ test_size' = 0
  /\ written_quality' = 0
  /\ enc' = 0
  /\ ret' = FALSE
  /\ probes' = <<>>
  /\ writes' = 0

\* Lines 147-173: the directory check, find_images, the empty check.
MainStart ==
  /\ pc = "start"
  /\ IF ~gallery_exists
     THEN /\ pc' = "exit1"
          /\ UNCHANGED <<image_files, i>>
     ELSE LET found == find_images(names) IN
          /\ image_files' = found
          /\ IF found = <<>>
             THEN pc' = "exit1" /\ UNCHANGED i
             ELSE pc' = "loop" /\ i' = 1
  /\ UNCHANGED <<gallery_exists, names, disk, disk0, temp, dry_run,
                 quality, target_size, mainVars, localVars, calls, outcome>>

Previewing_Never == FALSE

\* if args.dry_run: (line 179)
Previewing == dry_run

\* Line 176 raising: os.path.getsize is outside every try.
LoopStatRaises ==
  /\ pc = "loop"
  /\ i <= Len(image_files)
  /\ ~disk[Cur].statable
  /\ pc' = "crashed"
  /\ UNCHANGED <<argVars, disk, temp, i, mainVars, localVars, calls,
                 outcome>>

\* Lines 176-182 with --dry-run: the preview line, nothing else.
LoopPreview ==
  /\ pc = "loop"
  /\ i <= Len(image_files)
  /\ disk[Cur].statable
  /\ Previewing
  /\ total_original_size' = total_original_size + disk[Cur].size
  /\ i' = i + 1
  /\ UNCHANGED <<argVars, disk, temp, pc, success_count,
                 total_compressed_size, localVars, calls, outcome>>

\* Lines 176-177, 184: the call of compress_image(image_path, ...).
LoopCall ==
  /\ pc = "loop"
  /\ i <= Len(image_files)
  /\ disk[Cur].statable
  /\ ~Previewing
  /\ total_original_size' = total_original_size + disk[Cur].size
  /\ calls' = Append(calls, Cur)
  /\ pc' = "open"
  /\ UNCHANGED <<argVars, disk, temp, i, success_count,
                 total_compressed_size, localVars, outcome>>

\* Lines 24-58: open, orientation, colour mode, the size check.
Open ==
  /\ pc = "open"
  /\ IF ~disk[Cur].decodable
     THEN /\ ret' = FALSE
          /\ pc' = "return"
          /\ UNCHANGED <<img, original_size, original_dimensions, k,
                         best_quality>>
     ELSE LET f == disk[Cur]
              opened == Decode(f)
          IN
          /\ original_size' = f.size
          /\ original_dimensions' = <<opened.width, opened.height>>
          /\ img' = Normalize(exif_transpose(opened, f.orientation))
          /\ IF SmallEnough(f.size, target_size)
             THEN /\ ret' = TRUE
                  /\ pc' = "return"
                  /\ UNCHANGED <<k, best_quality>>
             ELSE IF IsPng(names[Cur])
             THEN /\ pc' = "save_png"
                  /\ UNCHANGED <<ret, k, best_quality>>
             ELSE /\ pc' = "probe"
                  /\ k' = 1
                  /\ best_quality' = quality
                  /\ UNCHANGED ret
  /\ UNCHANGED <<argVars, disk, temp, i, mainVars, test_size,
                 written_quality, enc, probes, writes, calls, outcome>>

\* Lines 67-73: the PNG branch; the except clause when save raises.
SavePng ==
  /\ pc = "save_png"
  /\ writes' = writes + 1
  /\ \/ \E s \in Sizes :
          /\ disk' = [disk EXCEPT ![Cur] = Encoded(img, "PNG", s)]
          /\ pc' = "report"
          /\ UNCHANGED ret
     \/ /\ disk' \in {disk, [disk EXCEPT ![Cur] = Truncated(@)]}
        /\ ret' = FALSE
        /\ pc' = "return"
  /\ UNCHANGED <<argVars, temp, i, mainVars, img, original_size,
                 original_dimensions, k, best_quality, test_size,
                 written_quality, enc, probes, calls, outcome>>

\* Lines 80-88: one iteration of the ladder loop.
Probe ==
  /\ pc = "probe"
  /\ LET test_quality == Ladder(quality)[k] IN
     /\ probes' = Append(probes, test_quality)
     /\ \/ \E s \in Sizes :
             /\ (test_quality = quality /\ enc # 0) => s = enc
             /\ enc' = IF test_quality = quality THEN s ELSE enc
             /\ test_size' = s
             /\ temp' = [temp EXCEPT ![Cur] = TRUE]
             /\ IF Accepts(s, test_quality, target_size)
                THEN /\ best_quality' = test_quality
                     /\ pc' = "final"
                     /\ UNCHANGED k
                ELSE IF k < Len(Ladder(quality))
                THEN /\ k' = k + 1
                     /\ UNCHANGED <<best_quality, pc>>
                ELSE /\ pc' = "final"
                     /\ UNCHANGED <<best_quality, k>>
             /\ UNCHANGED ret
        \/ /\ temp' \in {temp, [temp EXCEPT ![Cur] = TRUE]}
           /\ ret' = FALSE
           /\ pc' = "return"
           /\ UNCHANGED <<enc, test_size, best_quality, k>>
  /\ UNCHANGED <<argVars, disk, i, mainVars, img, original_size,
                 original_dimensions, written_quality, writes, calls, outcome>>

\* The encoder is a function of the image and its parameters: saving img at
\* best_quality again gives the size its probe measured.
EncodedSize == IF best_quality = quality THEN enc ELSE test_size

\* Lines 91-93: the final save at best_quality.
FinalWrite ==
  /\ pc = "final"
  /\ writes' = writes + 1
  /\ written_quality' = best_quality
  /\ \/ /\ disk' = [disk EXCEPT ![Cur] =
                      Encoded(img, "JPEG", EncodedSize)]
        /\ pc' = "cleanup"
        /\ UNCHANGED ret
     \/ /\ disk' \in {disk, [disk EXCEPT ![Cur] = Truncated(@)]}
        /\ ret' = FALSE
        /\ pc' = "return"
  /\ UNCHANGED <<argVars, temp, i, mainVars, img, original_size,
                 original_dimensions, k, best_quality, test_size, enc, probes,
                 calls, outcome>>

\* Lines 96-97: if os.path.exists(temp_path): os.remove(temp_path).
Cleanup ==
  /\ pc = "cleanup"
  /\ temp' = [temp EXCEPT ![Cur] = FALSE]
  /\ pc' = "report"
  /\ UNCHANGED <<argVars, disk, i, mainVars, localVars, calls,
                 outcome>>

\* Lines 100-114: the sizes, the printed report, return True.
Report ==
  /\ pc = "report"
  /\ ret' = TRUE
  /\ pc' = "return"
  /\ UNCHANGED <<argVars, disk, temp, i, mainVars, img, original_size,
                 original_dimensions, k, best_quality, test_size,
                 written_quality, enc, probes, writes, calls, outcome>>

\* Lines 184-186: main takes the return value and moves to the next file.
Return ==
  /\ pc = "return"
  /\ IF ret
     THEN /\ success_count' = success_count + 1
          /\ total_compressed_size' = total_compressed_size + disk[Cur].size
          /\ outcome' = [outcome EXCEPT ![Cur] =
               [called |-> TRUE, success |-> TRUE,
                compressed_size |-> disk[Cur].size]]
     ELSE /\ outcome' = [outcome EXCEPT ![Cur] =
               [called |-> TRUE, success |-> FALSE, compressed_size |-> 0]]
          /\ UNCHANGED <<success_count, total_compressed_size>>
  /\ i' = i + 1
  /\ pc' = "loop"
  /\ ResetLocals
  /\ UNCHANGED <<argVars, disk, temp, total_original_size, calls>>

\* Lines 188-200: the summary.
Summary ==
  /\ pc = "loop"
  /\ i > Len(image_files)
  /\ pc' = "done"
  /\ UNCHANGED <<argVars, disk, temp, i, mainVars, localVars, calls,
                 outcome>>

Next ==
  \/ MainStart
  \/ LoopStatRaises
  \/ LoopPreview
  \/ LoopCall
  \/ Open
  \/ SavePng
  \/ Probe
  \/ FinalWrite
  \/ Cleanup
  \/ Report
  \/ Return
  \/ Summary

Spec == Init /\ [][Next]_vars

SpecLadder == InitLadder /\ [][Next]_vars

SpecImage == InitImage /\ [][Next]_vars

\* ------------------------------------------------------------------ claims

InCall ==
  pc \in {"open", "save_png", "probe", "final", "cleanup", "report", "return"}

Returned == pc = "return"

Last(s) == s[Len(s)]

ClaimedLadder == <<quality, 75, 65, 55, 45, 35>>

\* The file compress_image is working on is a non-PNG above the target.
NonPngAboveTarget ==
  /\ InCall
  /\ Lower(names[Cur]) # ".png"
  /\ disk0[Cur].size > target_size

PngAboveTarget ==
  /\ InCall
  /\ Lower(names[Cur]) = ".png"
  /\ disk0[Cur].size > target_size

\* The last probe is the accepted one.
LastProbeAccepted ==
  /\ probes # <<>>
  /\ best_quality = Last(probes)
  /\ (test_size <= target_size \/ best_quality = 35)

C1_State ==
  /\ probes # <<>> => NonPngAboveTarget
  /\ Len(probes) <= Len(ClaimedLadder)
  /\ \A j \in 1..Len(probes) : probes[j] = ClaimedLadder[j]
  /\ \A j \in 1..(Len(probes) - 1) : probes[j] # 35
  /\ (pc \in {"final", "cleanup"} \/ (pc = "report" /\ probes # <<>>))
       => LastProbeAccepted
  /\ written_quality # 0
       => /\ LastProbeAccepted
          /\ written_quality = best_quality
          /\ \E j \in 1..Len(ClaimedLadder) : written_quality = ClaimedLadder[j]

C1_Step ==
  Len(probes') > Len(probes)
    => /\ pc = "probe"
       /\ written_quality = 0
       /\ Len(probes') = Len(probes) + 1
       /\ probes # <<>> => (test_size > target_size /\ Last(probes) # 35)

\* C1: on a non-PNG above the target the probes are a prefix of
\* [requested, 75, 65, 55, 45, 35] in that order; a probe is made only when
\* the probe before it was above the target and not at quality 35, so the
\* accepted probe is the first one that is <= target or at 35 and nothing
\* is probed after it; the final write uses the accepted probe's quality.
C1_LadderOrder == [] C1_State /\ [][C1_Step]_vars

C1_Witness ==
  /\ pc = "cleanup"
  /\ quality = 85
  /\ probes = <<85, 75, 65>>
  /\ written_quality = 65
  /\ test_size <= target_size

\* C2 as stated: every file at or below the target is left as it was, with
\* no temporary file, a success result and its original size reported.
C2_SmallIsNoOpSuccess ==
  /\ (Returned /\ disk0[Cur].size <= target_size)
       => /\ ret
          /\ disk[Cur] = disk0[Cur]
          /\ ~temp[Cur]
          /\ writes = 0
  /\ \A p \in DOMAIN outcome :
       (outcome[p].called /\ disk0[p].size <= target_size)
         => /\ outcome[p].success
            /\ outcome[p].compressed_size = disk0[p].size

\* C2 amended: a file at or below the target is never written and gets no
\* temporary file; the result is success, with the original size reported,
\* exactly when the file decodes.
C2_SmallIsNoOp ==
  /\ (InCall /\ disk0[Cur].size <= target_size)
       => /\ disk[Cur] = disk0[Cur]
          /\ ~temp[Cur]
          /\ writes = 0
          /\ probes = <<>>
          /\ Returned => (ret <=> disk0[Cur].decodable)
  /\ \A p \in DOMAIN outcome :
       (outcome[p].called /\ disk0[p].size <= target_size)
         => /\ disk[p] = disk0[p]
            /\ ~temp[p]
            /\ outcome[p].success <=> disk0[p].decodable
            /\ outcome[p].success
                 => outcome[p].compressed_size = disk0[p].size

C2_Witness ==
  /\ pc = "done"
  /\ \E p \in DOMAIN outcome :
       /\ outcome[p].called
       /\ disk0[p].size = target_size
       /\ outcome[p].success
       /\ outcome[p].compressed_size = disk0[p].size
  /\ \E p \in DOMAIN outcome :
       /\ outcome[p].called
       /\ disk0[p].size > target_size
       /\ disk[p].content = "encoded"

\* C3 as stated: once compress_image has returned, True or False, the
\* temporary file of that call is gone.
C3_TempRemoved ==
  /\ Returned => ~temp[Cur]
  /\ \A p \in DOMAIN outcome : outcome[p].called => ~temp[p]

\* C4 as stated: after a successful call the file has the pixel dimensions
\* the input had, and the reported dimensions are those too.
C4_DimensionsKept ==
  (Returned /\ ret)
    => /\ <<disk[Cur].width, disk[Cur].height>>
            = <<disk0[Cur].width, disk0[Cur].height>>
       /\ original_dimensions = <<disk[Cur].width, disk[Cur].height>>

\* C5 as stated: a file that fails to decode is left untouched and not
\* counted, no file is given to compress_image twice, and when main has
\* ended after such a failure every found file has been given to it, in
\* list order.
C5_FailureIsPerFile ==
  /\ \A p \in DOMAIN outcome :
       (outcome[p].called /\ ~disk0[p].decodable)
         => /\ disk[p] = disk0[p]
            /\ ~outcome[p].success
  /\ success_count
       = Cardinality({p \in DOMAIN outcome : outcome[p].success})
  /\ \A a, b \in 1..Len(calls) : calls[a] = calls[b] => a = b
  /\ ( /\ pc \in {"done", "crashed"}
       /\ \E p \in DOMAIN outcome : outcome[p].called /\ ~disk0[p].decodable )
       => calls = image_files

\* C6: in dry-run mode compress_image is never called and no file is
\* written, created or removed: bytes and modification times stay as they
\* were at the start, and no temporary file appears.
C6_DryRunTouchesNothing ==
  dry_run
    => /\ calls = <<>>
       /\ disk = disk0
       /\ \A p \in DOMAIN temp : ~temp[p]
       /\ ~InCall

C6_Witness ==
  /\ dry_run
  /\ pc = "done"
  /\ Len(image_files) >= 2
  /\ \E p \in DOMAIN disk : IsImageName(names[p]) /\ disk[p].size > target_size
  /\ total_original_size > 0

\* C7 as stated: after a successful call on an input with transparency, of
\* any size, the file has no alpha channel.
C7_AlphaRemovedAnySize ==
  (Returned /\ ret /\ HasAlpha(disk0[Cur])) => ~HasAlpha(disk[Cur])

\* C7 amended: after a successful call on an input with transparency whose
\* size is above the target, the file has no alpha channel (it is RGB); an
\* input at or below the target keeps its bytes, transparency included.
C7_AlphaRemovedAboveTarget ==
  (Returned /\ ret /\ HasAlpha(disk0[Cur]))
    => IF disk0[Cur].size > target_size
       THEN ~HasAlpha(disk[Cur]) /\ disk[Cur].mode = "RGB"
       ELSE disk[Cur] = disk0[Cur]

C7_Witness ==
  /\ Returned
  /\ ret
  /\ disk0[Cur].mode = "LA"
  /\ disk0[Cur].size > target_size
  /\ disk[Cur].content = "encoded"
  /\ disk[Cur].format = "PNG"
  /\ ~HasAlpha(disk[Cur])

\* C8 as stated: after a successful call on a non-PNG above the target the
\* file is no larger than it was.
C8_NeverLarger ==
  (Returned /\ ret /\ NonPngAboveTarget)
    => disk[Cur].size <= disk0[Cur].size

LadderExhausted ==
  /\ pc = "final"
  /\ test_size > target_size

\* C10 as stated: each requested quality in {75, 65, 55, 45, 35} is probed
\* twice in the run that goes through the whole ladder.
C10_EveryFixedValueTwice ==
  (LadderExhausted /\ quality \in {75, 65, 55, 45, 35})
    => CountOf(quality, probes) = 2

\* C10 amended: each requested quality in {75, 65, 55, 45} is probed twice
\* in the run that goes through the whole ladder; a requested quality of 35
\* is accepted at its first probe and never probed twice.
C10_FixedValueTwiceBut35 ==
  /\ (LadderExhausted /\ quality \in {75, 65, 55, 45})
       => CountOf(quality, probes) = 2
  /\ quality = 35 => Len(probes) <= 1
  /\ quality \notin {75, 65, 55, 45}
       => \A q \in {75, 65, 55, 45, 35} : CountOf(q, probes) <= 1

C10_Witness ==
  /\ LadderExhausted
  /\ quality = 45
  /\ probes = <<45, 75, 65, 55, 45, 35>>
  /\ CountOf(45, probes) = 2

====
